---- MODULE Spec2Model ----
(***************************************************************************)
(* Model of spelling_bee.py: the word classifier, the letter-set index,    *)
(* the puzzle generator/evaluator and the ranking, run as the script runs  *)
(* them.  Characters are their code points (ord), strings are sequences of *)
(* code points, Python dicts are sequences of values in insertion order    *)
(* with pairwise distinct keys.                                            *)
(***************************************************************************)
EXTENDS Naturals, Integers, Sequences, FiniteSets

VARIABLES
    file,                 \* the lines of enable1.txt read so far (stripped)
    iterAsc,              \* iteration order of frozensets in this process
    pc,                   \* position of the script
    i,                    \* number of lines read so far
    word,                 \* the loop variable `word` (last Word built)
    printed,              \* words printed by the one-letter diagnostic
    valuable_words,
    all_letter_sets,
    seven_letter_sets,
    spelling_bees,
    calls,                \* calls[k]: evaluate() calls made on spelling_bees[k]
    ranked_spelling_bees,
    top_sb,
    top_words,
    ranked_words          \* sorted(top_words, key=...) as printed

vars == <<file, iterAsc, pc, i, word, printed, valuable_words, all_letter_sets,
          seven_letter_sets, spelling_bees, calls, ranked_spelling_bees,
          top_sb, top_words, ranked_words>>

\* ------------------------------------------------------------------ bounds
MaxLines == 3
MaxReEvaluations == 1

\* ------------------------------------------------------------------ inputs
\* a, eeee, faced, deface, based, backfire, feedback,
\* abcdefÀ and Abcdefà (code points 192 and 224)
Dictionary ==
    { <<97>>,
      <<101, 101, 101, 101>>,
      <<102, 97, 99, 101, 100>>,
      <<100, 101, 102, 97, 99, 101>>,
      <<98, 97, 115, 101, 100>>,
      <<98, 97, 99, 107, 102, 105, 114, 101>>,
      <<102, 101, 101, 100, 98, 97, 99, 107>>,
      <<97, 98, 99, 100, 101, 102, 192>>,
      <<65, 98, 99, 100, 101, 102, 224>> }

\* ------------------------------------------------------------ pure helpers
ADMISSIBLE_LETTERS == (97..122) \ {115}

Range(s) == {s[k] : k \in DOMAIN s}

reversed(s) == [k \in 1..Len(s) |-> s[Len(s) + 1 - k]]

\* list(combinations(xs, n)) for every n at once: combinations_by_size(xs)[n + 1]
\* holds the n-element tuples of xs in the order itertools yields them
prepend(x, group) == [k \in 1..Len(group) |-> <<x>> \o group[k]]

extend(x, groups) ==
    [n \in 1..(Len(groups) + 1) |->
        (IF n >= 2 THEN prepend(x, groups[n - 1]) ELSE <<>>)
        \o (IF n <= Len(groups) THEN groups[n] ELSE <<>>)]

RECURSIVE combinations_by_size(_)
combinations_by_size(xs) ==
    IF xs = <<>> THEN << << <<>> >> >>
    ELSE extend(Head(xs), combinations_by_size(Tail(xs)))

RECURSIVE chain(_)
chain(groups) ==
    IF groups = <<>> THEN <<>> ELSE Head(groups) \o chain(Tail(groups))

\* range(len(xs)) in place of range(len(xs)+1): the full set is left out
powerset_short(xs) ==
    chain(SubSeq(combinations_by_size(xs), 1, Len(xs)))

powerset(xs) == chain(combinations_by_size(xs))

RECURSIVE set2str(_)
set2str(charset) ==
    IF charset = {} THEN <<>>
    ELSE LET m == CHOOSE x \in charset : \A y \in charset : x <= y
         IN  <<m>> \o set2str(charset \ {m})

\* list(frozenset): the order is fixed within a process, unspecified across
iterate(charset, asc) ==
    IF asc THEN set2str(charset) ELSE reversed(set2str(charset))

RECURSIVE str_lt(_, _)
str_lt(a, b) ==
    IF b = <<>> THEN FALSE
    ELSE IF a = <<>> THEN TRUE
    ELSE IF a[1] # b[1] THEN a[1] < b[1]
    ELSE str_lt(Tail(a), Tail(b))

\* -------------------------------------------------------------- class Word
\* the bonus only above 7 distinct letters
word_val_strict(w) ==
    LET word_len == Len(w)
        letters == Range(w)
        n_letters == Cardinality(letters)
    IN  [val |-> IF word_len > 4
                 THEN (IF n_letters > 7 THEN word_len + 7 ELSE word_len)
                 ELSE IF word_len = 4 THEN 1 ELSE 0,
         letters |-> letters,
         n_letters |-> n_letters]

word_val(w) ==
    LET word_len == Len(w)
        letters == Range(w)
        n_letters == Cardinality(letters)
    IN  [val |-> IF word_len > 4
                 THEN (IF n_letters >= 7 THEN word_len + 7 ELSE word_len)
                 ELSE IF word_len = 4 THEN 1 ELSE 0,
         letters |-> letters,
         n_letters |-> n_letters]

Word(w) ==
    LET r == word_val(w)
    IN  [word |-> w, val |-> r.val, letters |-> r.letters, n_letters |-> r.n_letters]

is_valuable(wd) == wd.val > 0

\* --------------------------------------------------------- class LetterSet
LetterSet(letters) ==
    [letters |-> letters, n_letters |-> Cardinality(letters), words |-> <<>>, val |-> 0]

\* the score subtracted from the total
add_word_minus(ls, wd) ==
    [ls EXCEPT !.words = Append(@, wd), !.val = @ - wd.val]

add_word(ls, wd) ==
    [ls EXCEPT !.words = Append(@, wd), !.val = @ + wd.val]

\* dict keyed by letter set: position of a key (0 when absent), lookup, store
ls_index(d, letters) ==
    IF \E k \in DOMAIN d : d[k].letters = letters
    THEN CHOOSE k \in DOMAIN d : d[k].letters = letters
    ELSE 0

ls_contains(d, letters) == ls_index(d, letters) # 0

ls_get(d, letters) == d[ls_index(d, letters)]

ls_setitem(d, ls) ==
    IF ls_contains(d, ls.letters)
    THEN [d EXCEPT ![ls_index(d, ls.letters)] = ls]
    ELSE Append(d, ls)

\* ------------------------------------------------------- class SpellingBee
get_key(letters, center_letter) ==
    LET key == set2str(letters)
    IN  [k \in 1..Len(key) |->
            IF key[k] = center_letter THEN key[k] + 65 - 97 ELSE key[k]]

SpellingBee(letters, center_letter) ==
    [letters |-> letters, center_letter |-> center_letter,
     key |-> get_key(letters, center_letter), letter_sets |-> <<>>, val |-> 0]

\* dict keyed by puzzle key
sb_index(d, key) ==
    IF \E k \in DOMAIN d : d[k].key = key
    THEN CHOOSE k \in DOMAIN d : d[k].key = key
    ELSE 0

sb_setitem(d, sb) ==
    IF sb_index(d, sb.key) # 0
    THEN [d EXCEPT ![sb_index(d, sb.key)] = sb]
    ELSE Append(d, sb)

RECURSIVE update(_, _)
update(d, other) ==
    IF other = <<>> THEN d ELSE update(sb_setitem(d, Head(other)), Tail(other))

RECURSIVE from_letters_loop(_, _, _)
from_letters_loop(todo, seven_letters, bees) ==
    IF todo = <<>> THEN bees
    ELSE from_letters_loop(Tail(todo), seven_letters,
                           sb_setitem(bees, SpellingBee(seven_letters, Head(todo))))

from_letters(seven_letters, asc) ==
    from_letters_loop(iterate(seven_letters, asc), seven_letters, <<>>)

letter_subsets(sb, asc) ==
    LET other_letters == sb.letters \ {sb.center_letter}
        ps == powerset(iterate(other_letters, asc))
    IN  [k \in 1..Len(ps) |-> {sb.center_letter} \cup Range(ps[k])]

RECURSIVE evaluate_loop(_, _, _)
evaluate_loop(keys, sb, index) ==
    IF keys = <<>> THEN sb
    ELSE LET key == Head(keys)
         IN  IF ls_contains(index, key)
             THEN LET ls == ls_get(index, key)
                  IN  evaluate_loop(Tail(keys),
                                    [sb EXCEPT !.letter_sets = ls_setitem(@, ls),
                                               !.val = @ + ls.val],
                                    index)
             ELSE evaluate_loop(Tail(keys), sb, index)

evaluate(sb, index, asc) == evaluate_loop(letter_subsets(sb, asc), sb, index)

RECURSIVE get_words_loop(_)
get_words_loop(lss) ==
    IF lss = <<>> THEN <<>> ELSE Head(lss).words \o get_words_loop(Tail(lss))

\* only the first matched letter set is read
get_words_first(sb) ==
    IF sb.letter_sets = <<>> THEN <<>> ELSE sb.letter_sets[1].words

get_words(sb) == get_words_loop(sb.letter_sets)

\* ---------------------------------------------------------------- ranking
\* key=lambda el: -el.val, the puzzle key left out
sb_lt_val_only(x, y) == x.val > y.val

\* key=lambda el: (-el.val, el.key), compared as tuples
sb_lt(x, y) == (x.val > y.val) \/ (x.val = y.val /\ str_lt(x.key, y.key))

\* key=lambda w: (-w.val, w.word)
word_lt(x, y) == (x.val > y.val) \/ (x.val = y.val /\ str_lt(x.word, y.word))

\* list.sort / sorted are stable: an element goes after the elements that
\* are not greater than it
RECURSIVE sort_spelling_bees(_)
sort_spelling_bees(xs) ==
    IF xs = <<>> THEN <<>>
    ELSE LET s == sort_spelling_bees(SubSeq(xs, 1, Len(xs) - 1))
             x == xs[Len(xs)]
             n == Cardinality({k \in DOMAIN s : ~sb_lt(x, s[k])})
         IN  SubSeq(s, 1, n) \o <<x>> \o SubSeq(s, n + 1, Len(s))

RECURSIVE sort_words(_)
sort_words(xs) ==
    IF xs = <<>> THEN <<>>
    ELSE LET s == sort_words(SubSeq(xs, 1, Len(xs) - 1))
             x == xs[Len(xs)]
             n == Cardinality({k \in DOMAIN s : ~word_lt(x, s[k])})
         IN  SubSeq(s, 1, n) \o <<x>> \o SubSeq(s, n + 1, Len(s))

\* ----------------------------------------------------------------- script
Init ==
    /\ file = <<>>
    /\ iterAsc \in BOOLEAN
    /\ pc = "parse"
    /\ i = 0
    /\ word = Word(<<>>)
    /\ printed = <<>>
    /\ valuable_words = <<>>
    /\ all_letter_sets = <<>>
    /\ seven_letter_sets = <<>>
    /\ spelling_bees = <<>>
    /\ calls = <<>>
    /\ ranked_spelling_bees = <<>>
    /\ top_sb = SpellingBee({}, 0)
    /\ top_words = <<>>
    /\ ranked_words = <<>>

\* the filter of line 148
accepted(wd) == is_valuable(wd) /\ wd.n_letters <= 7 /\ 115 \notin wd.letters

\* the length of the word tested in place of its number of distinct letters
one_letter_len(wd) == Len(wd.word) = 1

\* the condition of the diagnostic of line 149
one_letter(wd) == wd.n_letters = 1

\* a new LetterSet stored on every word, an existing entry overwritten
index_word_fresh(index, wd) ==
    ls_setitem(index, add_word(LetterSet(wd.letters), wd))

\* lines 154-159
index_word(index, wd) ==
    LET d == IF ~ls_contains(index, wd.letters)
             THEN ls_setitem(index, LetterSet(wd.letters))
             ELSE index
    IN  ls_setitem(d, add_word(ls_get(d, wd.letters), wd))

\* one iteration of the loop over the lines of the file
ParseLine ==
    /\ pc = "parse"
    /\ Len(file) < MaxLines
    /\ \E line \in Dictionary :
          LET wd == Word(line)
          IN  /\ file' = Append(file, line)
              /\ word' = wd
              /\ IF accepted(wd)
                 THEN /\ printed' = IF one_letter(wd) THEN Append(printed, wd.word)
                                    ELSE printed
                      /\ valuable_words' = Append(valuable_words, wd)
                      /\ all_letter_sets' = index_word(all_letter_sets, wd)
                 ELSE UNCHANGED <<printed, valuable_words, all_letter_sets>>
    /\ i' = i + 1
    /\ UNCHANGED <<iterAsc, pc, seven_letter_sets, spelling_bees, calls,
                   ranked_spelling_bees, top_sb, top_words, ranked_words>>

\* end of file, then the collection of the 7-letter sets
CollectSevenLetterSets ==
    /\ pc = "parse"
    /\ seven_letter_sets' = SelectSeq(all_letter_sets, LAMBDA ls : ls.n_letters = 7)
    /\ pc' = "create"
    /\ UNCHANGED <<file, iterAsc, i, word, printed, valuable_words, all_letter_sets,
                   spelling_bees, calls, ranked_spelling_bees, top_sb, top_words,
                   ranked_words>>

RECURSIVE create_loop(_, _, _)
create_loop(lss, bees, asc) ==
    IF lss = <<>> THEN bees
    ELSE create_loop(Tail(lss), update(bees, from_letters(Head(lss).letters, asc)), asc)

CreateSpellingBees ==
    /\ pc = "create"
    /\ spelling_bees' = create_loop(seven_letter_sets, <<>>, iterAsc)
    /\ calls' = [k \in DOMAIN spelling_bees' |-> 0]
    /\ pc' = "evaluate"
    /\ UNCHANGED <<file, iterAsc, i, word, printed, valuable_words, all_letter_sets,
                   seven_letter_sets, ranked_spelling_bees, top_sb, top_words,
                   ranked_words>>

\* one iteration of the evaluation loop
EvaluateNext ==
    /\ pc = "evaluate"
    /\ \E k \in DOMAIN spelling_bees :
          /\ calls[k] = 0
          /\ \A m \in 1..(k - 1) : calls[m] > 0
          /\ spelling_bees' =
                [spelling_bees EXCEPT ![k] = evaluate(@, all_letter_sets, iterAsc)]
          /\ calls' = [calls EXCEPT ![k] = @ + 1]
    /\ UNCHANGED <<file, iterAsc, pc, i, word, printed, valuable_words,
                   all_letter_sets, seven_letter_sets, ranked_spelling_bees, top_sb,
                   top_words, ranked_words>>

Rank ==
    /\ pc = "evaluate"
    /\ \A k \in DOMAIN spelling_bees : calls[k] > 0
    /\ ranked_spelling_bees' = sort_spelling_bees(spelling_bees)
    /\ pc' = "show"
    /\ UNCHANGED <<file, iterAsc, i, word, printed, valuable_words, all_letter_sets,
                   seven_letter_sets, spelling_bees, calls, top_sb, top_words,
                   ranked_words>>

\* ranked_spelling_bees[0] raises IndexError when there is no puzzle
ShowTop ==
    /\ pc = "show"
    /\ IF ranked_spelling_bees = <<>>
       THEN /\ pc' = "crashed"
            /\ UNCHANGED <<top_sb, top_words, ranked_words>>
       ELSE /\ top_sb' = ranked_spelling_bees[1]
            /\ top_words' = get_words(ranked_spelling_bees[1])
            /\ ranked_words' = sort_words(get_words(ranked_spelling_bees[1]))
            /\ pc' = "done"
    /\ UNCHANGED <<file, iterAsc, i, word, printed, valuable_words, all_letter_sets,
                   seven_letter_sets, spelling_bees, calls, ranked_spelling_bees>>

Next ==
    \/ ParseLine
    \/ CollectSevenLetterSets
    \/ CreateSpellingBees
    \/ EvaluateNext
    \/ Rank
    \/ ShowTop

Spec == Init /\ [][Next]_vars

\* a caller that runs evaluate again on one puzzle it has already evaluated
ReEvaluate ==
    /\ pc = "evaluate"
    /\ \E k \in DOMAIN spelling_bees :
          /\ calls[k] >= 1
          /\ calls[k] <= MaxReEvaluations
          /\ \A m \in DOMAIN spelling_bees : m # k => calls[m] <= 1
          /\ spelling_bees' =
                [spelling_bees EXCEPT ![k] = evaluate(@, all_letter_sets, iterAsc)]
          /\ calls' = [calls EXCEPT ![k] = @ + 1]
    /\ UNCHANGED <<file, iterAsc, pc, i, word, printed, valuable_words,
                   all_letter_sets, seven_letter_sets, ranked_spelling_bees, top_sb,
                   top_words, ranked_words>>

NextReEval == Next \/ ReEvaluate

SpecReEval == Init /\ [][NextReEval]_vars

\* ------------------------------------------------------------ properties
Count(s, x) == Cardinality({k \in DOMAIN s : s[k] = x})

SameBag(s, t) == /\ Len(s) = Len(t)
                 /\ \A k \in DOMAIN s : Count(s, s[k]) = Count(t, s[k])

RECURSIVE SumVals(_)
SumVals(s) == IF s = <<>> THEN 0 ELSE Head(s).val + SumVals(Tail(s))

\* the subsets of a puzzle's letters that contain its center letter
CenterSubsets(p) == {T \in SUBSET p.letters : p.center_letter \in T}

IndexEntries(T) == {k \in DOMAIN all_letter_sets : all_letter_sets[k].letters = T}

IndexVal(T) ==
    IF IndexEntries(T) = {} THEN 0
    ELSE all_letter_sets[CHOOSE k \in IndexEntries(T) : TRUE].val

RECURSIVE SumIndexVal(_)
SumIndexVal(Ts) ==
    IF Ts = {} THEN 0
    ELSE LET T == CHOOSE X \in Ts : TRUE IN IndexVal(T) + SumIndexVal(Ts \ {T})

\* C1: once every puzzle has been evaluated exactly once, a puzzle's val is
\* the sum of the index entries' val over the 64 subsets of its letters that
\* contain the center letter (absent subsets count 0), and its letter_sets
\* holds exactly the index entries of the subsets that are present.
C1_EvaluateSum ==
    pc = "show" =>
        \A k \in DOMAIN spelling_bees :
            LET p == spelling_bees[k]
                subsets == letter_subsets(p, iterAsc)
            IN  /\ calls[k] = 1
                /\ Len(subsets) = 64
                /\ Range(subsets) = CenterSubsets(p)
                /\ Cardinality(CenterSubsets(p)) = 64
                /\ p.val = SumIndexVal(CenterSubsets(p))
                /\ {p.letter_sets[m].letters : m \in DOMAIN p.letter_sets}
                      = {T \in CenterSubsets(p) : IndexEntries(T) # {}}
                /\ \A m \in DOMAIN p.letter_sets :
                      /\ p.letter_sets[m] \in Range(all_letter_sets)
                      /\ Count([n \in DOMAIN p.letter_sets |-> p.letter_sets[n].letters],
                               p.letter_sets[m].letters) = 1

C1_Witness ==
    /\ pc = "show"
    /\ \E k \in DOMAIN spelling_bees :
          LET p == spelling_bees[k]
          IN  /\ Len(p.letter_sets) >= 2
              /\ p.val > 14
              /\ \E e \in Range(all_letter_sets) : e \notin Range(p.letter_sets)

\* C2: word_val gives 0 up to length 3, 1 at length 4, and above length 4 the
\* length plus 7 exactly when the word has 7 or more distinct letters; the
\* letters are the distinct characters of the word and n_letters their number.
C2_WordVal ==
    LET w == word.word
        n == Len(w)
        distinct == {w[k] : k \in 1..n}
        d == Cardinality(distinct)
    IN  /\ i >= 1 => w = file[i]
        /\ n <= 3 => word.val = 0
        /\ n = 4 => word.val = 1
        /\ (n > 4 /\ d >= 7) => word.val = n + 7
        /\ (n > 4 /\ d < 7) => word.val = n
        /\ word.letters = distinct
        /\ word.n_letters = d

C2_Witness ==
    /\ i = 3
    /\ Len(word.word) = 7 /\ word.n_letters = 7 /\ word.val = 14
    /\ Len(file[1]) = 4 /\ Len(file[2]) = 6

\* C3: every 7-letter set of the index yields exactly 7 puzzles with pairwise
\* distinct keys, one per center letter, all on the same letters, and merging
\* the puzzles of all 7-letter sets never overwrites a puzzle.
C3_SevenPuzzlesPerSet ==
    pc \in {"evaluate", "show", "done", "crashed"} =>
        /\ \A n \in DOMAIN seven_letter_sets :
              LET S == seven_letter_sets[n].letters
                  bees == from_letters(S, iterAsc)
              IN  /\ Len(bees) = 7
                  /\ \A a, b \in DOMAIN bees : a # b => bees[a].key # bees[b].key
                  /\ {bees[a].center_letter : a \in DOMAIN bees} = S
                  /\ \A a \in DOMAIN bees : bees[a].letters = S
                  /\ \A c \in S : \E k \in DOMAIN spelling_bees :
                        /\ spelling_bees[k].letters = S
                        /\ spelling_bees[k].center_letter = c
        /\ Len(spelling_bees) = 7 * Len(seven_letter_sets)

\* C4: a puzzle on which evaluate has run, once or more, has the val and the
\* matched entries that a single evaluate gives a fresh puzzle.
C4_EvaluateIdempotent ==
    \A k \in DOMAIN spelling_bees :
        calls[k] >= 1 =>
            LET once == evaluate(SpellingBee(spelling_bees[k].letters,
                                             spelling_bees[k].center_letter),
                                 all_letter_sets, iterAsc)
            IN  /\ spelling_bees[k].val = once.val
                /\ spelling_bees[k].letter_sets = once.letter_sets

PuzzleBefore(x, y) == (x.val > y.val) \/ (x.val = y.val /\ str_lt(x.key, y.key))

WordBefore(x, y) == (x.val > y.val) \/ (x.val = y.val /\ str_lt(x.word, y.word))

C6_AdmissibleOnly ==
    /\ \A k \in DOMAIN valuable_words : valuable_words[k].letters \subseteq ADMISSIBLE_LETTERS
    /\ \A k \in DOMAIN all_letter_sets :
          /\ all_letter_sets[k].letters \subseteq ADMISSIBLE_LETTERS
          /\ \A m \in DOMAIN all_letter_sets[k].words :
                Range(all_letter_sets[k].words[m].word) \subseteq ADMISSIBLE_LETTERS
    /\ \A k \in DOMAIN spelling_bees : spelling_bees[k].letters \subseteq ADMISSIBLE_LETTERS

\* the puzzles on the 7-letter sets of the dictionary
CandidatePuzzles ==
    UNION {{SpellingBee(S, c) : c \in S} :
              S \in {T \in {Range(w) : w \in Dictionary} : Cardinality(T) = 7}}

\* C7: when a word is added to the index, a fresh puzzle whose letters
\* include the word's letters and whose center letter is in the word
\* evaluates against the new index to at least the val it evaluates to
\* against the index before.
C7_Monotone ==
    [][(pc = "parse" /\ all_letter_sets' # all_letter_sets) =>
          \A p \in CandidatePuzzles :
              (word'.letters \subseteq p.letters /\ p.center_letter \in word'.letters) =>
                  evaluate(p, all_letter_sets', iterAsc).val
                      >= evaluate(p, all_letter_sets, iterAsc).val]_vars

C7_Witness ==
    /\ pc = "parse"
    /\ i = 3
    /\ accepted(word)
    /\ Len(all_letter_sets) = 3
    /\ \E p \in CandidatePuzzles :
          /\ word.letters \subseteq p.letters
          /\ p.center_letter \in word.letters
          /\ evaluate(p, all_letter_sets, iterAsc).val > 14 + word.val

\* the words read so far that the index must hold under letter set T
Qualifies(w) ==
    /\ Word(w).val > 0
    /\ Cardinality(Range(w)) <= 7
    /\ 115 \notin Range(w)

ProcessedWords == [k \in 1..i |-> Word(file[k])]

\* C8: after any prefix of the input, the entry of letter set T holds, in
\* input order and once per occurrence, the words read so far that score
\* more than 0, have at most 7 distinct letters, no 's' and letter set T; its
\* val is the sum of their scores; a letter set has an entry exactly when at
\* least one such word was read (so no entry is ever removed).
C8_IndexContents ==
    /\ \A k \in DOMAIN all_letter_sets :
          LET e == all_letter_sets[k]
              expected == SelectSeq(ProcessedWords,
                                    LAMBDA wd : Qualifies(wd.word) /\ wd.letters = e.letters)
          IN  /\ e.words = expected
              /\ e.words # <<>>
              /\ e.val = SumVals(expected)
              /\ e.n_letters = Cardinality(e.letters)
              /\ \A m \in DOMAIN all_letter_sets : m # k => all_letter_sets[m].letters # e.letters
    /\ \A k \in 1..i :
          Qualifies(file[k]) => \E m \in DOMAIN all_letter_sets :
                                    all_letter_sets[m].letters = Range(file[k])
    /\ valuable_words = SelectSeq(ProcessedWords, LAMBDA wd : Qualifies(wd.word))

C8_Witness ==
    /\ i = 3
    /\ Len(all_letter_sets) = 1
    /\ Len(all_letter_sets[1].words) = 2
    /\ all_letter_sets[1].words[1] # all_letter_sets[1].words[2]
    /\ ~Qualifies(file[2])

\* C9: the words get_words yields for a puzzle evaluated once are the indexed
\* words made only of the puzzle's letters and containing its center letter,
\* each occurrence once.
C9_GetWords ==
    /\ pc = "show" =>
          \A k \in DOMAIN spelling_bees :
              LET p == spelling_bees[k]
              IN  SameBag(get_words(p),
                          SelectSeq(valuable_words,
                                    LAMBDA wd : /\ Range(wd.word) \subseteq p.letters
                                                /\ p.center_letter \in Range(wd.word)))
    /\ pc = "done" => top_words = get_words(top_sb)

C9_Witness ==
    /\ pc = "done"
    /\ Len(top_sb.letter_sets) = 2
    /\ Len(top_words) = 2
    /\ Len(valuable_words) = 3

\* C10 as stated: every 1-letter word read has been flagged, and no flagged
\* word is in the index.
C10_OneLetterWordFlagged ==
    /\ \A k \in 1..i : Len(file[k]) = 1 => file[k] \in Range(printed)
    /\ \A k \in DOMAIN printed : \A m \in DOMAIN valuable_words :
          valuable_words[m].word # printed[k]

\* C10 amended: the diagnostic is printed, in input order, for exactly the
\* words that score more than 0, have no 's' and have one distinct letter,
\* and each of them is added to the index; a word of one character scores 0,
\* is not flagged and is not added to the index.
C10_Diagnostic ==
    /\ printed = SelectSeq([k \in 1..i |-> file[k]],
                           LAMBDA w : /\ Word(w).val > 0
                                      /\ 115 \notin Range(w)
                                      /\ Cardinality(Range(w)) = 1)
    /\ \A k \in DOMAIN printed :
          /\ \E m \in DOMAIN valuable_words : valuable_words[m].word = printed[k]
          /\ \E m \in DOMAIN all_letter_sets :
                \E n \in DOMAIN all_letter_sets[m].words :
                    all_letter_sets[m].words[n].word = printed[k]
    /\ \A k \in 1..i :
          Len(file[k]) = 1 =>
              /\ Word(file[k]).val = 0
              /\ file[k] \notin Range(printed)
              /\ \A m \in DOMAIN valuable_words : valuable_words[m].word # file[k]

C10_Witness ==
    /\ i = 3
    /\ Len(printed) = 1
    /\ \E k \in 1..i : Len(file[k]) = 1
    /\ \E k \in 1..i : Len(file[k]) > 1 /\ file[k] \notin Range(printed)
====
